---- MODULE Spec2Model ----
(***************************************************************************)
(* Dejavas backend: the stand-in web framework (fastapi/__init__.py), its  *)
(* model system (pydantic/__init__.py) and the handler declarations of     *)
(* main.py.                                                                *)
(*                                                                         *)
(* Python values are tagged records:                                       *)
(*   None  [t |-> "None"]          str   [t |-> "str",  s |-> "..."]       *)
(*   int   [t |-> "int", i |-> n]  dict  [t |-> "dict", d |-> key :> val]  *)
(*   list  [t |-> "list", l |-> <<...>>]                                   *)
(*   BaseModel instance  [t |-> "obj", cls |-> "...", attrs |-> f :> val]  *)
(*   coroutine object    [t |-> "coroutine", func |-> "..."]               *)
(* A raised exception is [t |-> "raise", exc |-> "...", ...].              *)
(***************************************************************************)
EXTENDS Integers, Sequences, FiniteSets, TLC

VARIABLES
    cls,      \* pydantic: the class parse_obj is called on
    obj,      \* pydantic: the raw object handed to parse_obj
    inst,     \* pydantic: what parse_obj produced (instance or raised error)
    ser,      \* pydantic: what inst.dict() produced
    inst2,    \* pydantic: parse_obj of ser (the round trip)
    routes,   \* FastAPI._routes: verb -> sequence of (pattern, func)
    declared, \* history: the (method, path, func) of each registration
    req,      \* the arguments of the latest _call
    called,   \* the handler invocations func(**kwargs) of the latest _call
    res,      \* what the latest _call returned or raised
    sreq,     \* serve: the HTTP request Handler._dispatch is handling
    wfile,    \* serve: the responses written for that request
    exc,      \* serve: the exception that left Handler._dispatch
    simulations, \* main.py: the session store, session id -> session
    uploads,  \* history: the calls of upload_brief that returned
    backlog,  \* serve: the connections waiting to be accepted, in order
    active    \* serve: the requests whose handling has begun and not ended

binderVars == <<cls, obj, inst, ser, inst2>>
routerVars == <<routes, declared, req, called, res>>
serverVars == <<sreq, wfile, exc>>
appVars == <<simulations, uploads>>
loopVars == <<backlog, active>>
vars ==
    <<cls, obj, inst, ser, inst2, routes, declared, req, called, res,
      sreq, wfile, exc, simulations, uploads, backlog, active>>

(***************************************************************************)
(* Python values                                                           *)
(***************************************************************************)
PyNone == [t |-> "None"]
PyStr(s) == [t |-> "str", s |-> s]
PyInt(i) == [t |-> "int", i |-> i]
PyBool(b) == [t |-> "bool", b |-> b]
PyDict(d) == [t |-> "dict", d |-> d]
PyList(l) == [t |-> "list", l |-> l]
PyObj(c, attrs) == [t |-> "obj", cls |-> c, attrs |-> attrs]
TypeError == [t |-> "raise", exc |-> "TypeError"]
Unset == [t |-> "unset"]

IsRaise(v) == v.t = "raise"

\* dict.get(key): the value, or None when the key is missing
DictGet(d, key) == IF key \in DOMAIN d THEN d[key] ELSE PyNone

EmptyDict == <<>>

SeqsUpTo(S, n) == UNION {[1..k -> S] : k \in 0..n}

(***************************************************************************)
(* Model declarations (typing.get_type_hints of each BaseModel subclass)   *)
(* A hint is [origin, arg]: origin "list" for List[arg], "Union" for       *)
(* Optional[arg], "plain" for a bare type.                                 *)
(***************************************************************************)
Plain(typ) == [origin |-> "plain", arg |-> typ]
ListOf(typ) == [origin |-> "list", arg |-> typ]
OptionalOf(typ) == [origin |-> "Union", arg |-> typ]

\* The BaseModel subclasses main.py declares.
DeclaredModels ==
    {"Feature", "Brief", "AgentConfig", "SimulationReport",
     "ContentAnalysisRequest", "IntegrationConfig"}

\* A further declaration, input to the binder: a record with a single
\* nested-model field (main.py declares none), class Pitch(BaseModel):
\*     headline: str
\*     lead: Feature
InputModels == {"Pitch"}

ModelClasses == DeclaredModels \cup InputModels

\* issubclass(typ, BaseModel)
IsModelClass(typ) == typ \in ModelClasses

\* get_type_hints(cls): the fields in declaration order
Hints(c) ==
    CASE c = "Feature" ->
           << <<"title", Plain("str")>>, <<"description", Plain("str")>> >>
      [] c = "Brief" ->
           << <<"product_name", Plain("str")>>,
              <<"features", ListOf("Feature")>> >>
      [] c = "AgentConfig" ->
           << <<"customer_percentage", Plain("int")>>,
              <<"competitor_percentage", Plain("int")>>,
              <<"influencer_percentage", Plain("int")>>,
              <<"internal_team_percentage", Plain("int")>> >>
      [] c = "SimulationReport" ->
           << <<"session_id", Plain("str")>>,
              <<"adoption_score", Plain("float")>>,
              <<"top_objections", ListOf("str")>>,
              <<"must_fix", ListOf("str")>> >>
      [] c = "ContentAnalysisRequest" ->
           << <<"url", OptionalOf("str")>>,
              <<"text", OptionalOf("str")>>,
              <<"integration_type", Plain("str")>> >>
      [] c = "IntegrationConfig" ->
           << <<"integration_type", Plain("str")>>,
              <<"webhook_url", OptionalOf("str")>>,
              <<"settings", OptionalOf("Dict")>> >>
      [] c = "Pitch" ->
           << <<"headline", Plain("str")>>, <<"lead", Plain("Feature")>> >>

\* The class-level defaults of a declaration (class attributes).
ClassDefaults(c) ==
    CASE c = "ContentAnalysisRequest" ->
           [f \in {"url", "text", "integration_type"} |->
              IF f = "integration_type" THEN PyStr("browser_extension")
              ELSE PyNone]
      [] c = "IntegrationConfig" ->
           [f \in {"webhook_url", "settings"} |-> PyNone]
      [] OTHER -> EmptyDict

FieldNames(c) == {Hints(c)[k][1] : k \in 1..Len(Hints(c))}
HintOf(c, f) == (CHOOSE k \in 1..Len(Hints(c)) : Hints(c)[k][1] = f)

(***************************************************************************)
(* pydantic.BaseModel                                                      *)
(***************************************************************************)
RECURSIVE ParseObj(_, _)
RECURSIVE FieldValue(_, _)

\* [inner.parse_obj(v) for v in value]: iterating a list yields its
\* elements; iterating a str yields its characters (each a str) and
\* iterating a dict its keys (each a str), so only the empty ones get
\* through parse_obj; anything else is not iterable.
ParseEach(inner, value) ==
    CASE value.t = "list" ->
           LET parsed == [k \in 1..Len(value.l) |-> ParseObj(inner, value.l[k])]
           IN IF \E k \in 1..Len(parsed) : IsRaise(parsed[k])
              THEN TypeError
              ELSE PyList(parsed)
      [] value.t = "str" -> IF value.s = "" THEN PyList(<<>>) ELSE TypeError
      [] value.t = "dict" ->
           IF DOMAIN value.d = {} THEN PyList(<<>>) ELSE TypeError
      [] OTHER -> TypeError

\* __init__, lines 13-21: the value setattr stores for one field
FieldValue(hint, value) ==
    IF value = PyNone THEN PyNone
    ELSE IF hint.origin = "list"
         THEN IF IsModelClass(hint.arg) THEN ParseEach(hint.arg, value)
              ELSE value
    ELSE IF hint.origin = "plain" /\ IsModelClass(hint.arg)
         THEN ParseObj(hint.arg, value)
    ELSE value

\* __init__ keeping the declared default of a field that data leaves out
BaseModelInitDefaults(c, data) ==
    LET given(f) == IF f \notin DOMAIN data /\ f \in DOMAIN ClassDefaults(c)
                    THEN ClassDefaults(c)[f]
                    ELSE DictGet(data, f)
        stored == [f \in FieldNames(c) |->
                     FieldValue(Hints(c)[HintOf(c, f)][2], given(f))]
    IN IF \E f \in FieldNames(c) : IsRaise(stored[f])
       THEN TypeError
       ELSE PyObj(c, stored)

\* BaseModel.__init__(**data)
BaseModelInit(c, data) ==
    LET stored == [f \in FieldNames(c) |->
                     FieldValue(Hints(c)[HintOf(c, f)][2], DictGet(data, f))]
    IN IF \E f \in FieldNames(c) : IsRaise(stored[f])
       THEN TypeError
       ELSE PyObj(c, stored)

\* parse_obj: cls(**obj) needs a mapping
ParseObj(c, o) ==
    IF o.t = "dict" THEN BaseModelInit(c, o.d) ELSE TypeError

\* dict() that leaves the instances inside a list as they are
ModelDictShallow(o) ==
    PyDict([f \in FieldNames(o.cls) |->
        IF o.attrs[f].t = "obj" THEN PyDict(o.attrs[f].attrs)
        ELSE o.attrs[f]])

RECURSIVE ModelDict(_)
\* BaseModel.dict()
ModelDict(o) ==
    PyDict([f \in FieldNames(o.cls) |->
        LET value == o.attrs[f]
        IN IF value.t = "list"
           THEN PyList([k \in 1..Len(value.l) |->
                          IF value.l[k].t = "obj" THEN ModelDict(value.l[k])
                          ELSE value.l[k]])
           ELSE IF value.t = "obj" THEN ModelDict(value)
           ELSE value])

\* getattr(instance, field): the instance attribute __init__ set, else the
\* class attribute
GetAttr(o, f) ==
    IF f \in DOMAIN o.attrs THEN o.attrs[f] ELSE ClassDefaults(o.cls)[f]

\* no parse_obj under way
BinderIdle ==
    /\ cls = "Feature"
    /\ obj = Unset
    /\ inst = Unset
    /\ ser = Unset
    /\ inst2 = Unset

(***************************************************************************)
(* fastapi: strings that are matched are sequences of characters           *)
(***************************************************************************)
RECURSIVE Join(_)
\* the str a sequence of characters spells
Join(cs) == IF cs = <<>> THEN "" ELSE Head(cs) \o Join(Tail(cs))

\* rstrip left out
RStripNothing(s) == s

\* a single trailing separator removed
RStripOne(s) ==
    IF s # <<>> /\ s[Len(s)] = "/" THEN SubSeq(s, 1, Len(s) - 1) ELSE s

RECURSIVE RStrip(_)
\* str.rstrip("/"): every trailing separator is removed
RStrip(s) ==
    IF s # <<>> /\ s[Len(s)] = "/" THEN RStrip(SubSeq(s, 1, Len(s) - 1))
    ELSE s

Lit(c) == [k |-> "lit", c |-> c]
Group(name) == [k |-> "group", name |-> name]

RECURSIVE SubPlaceholders(_)
\* re.sub(r"{([^}]+)}", r"(?P<\1>[^/]+)", text), left to right: a "{", one
\* or more characters other than "}", and the first "}" become a named
\* group; any other character stays in the expression as it is
SubPlaceholders(t) ==
    IF t = <<>> THEN <<>>
    ELSE LET closes == {j \in 2..Len(t) : t[j] = "}"}
             j == CHOOSE c \in closes : \A d \in closes : c <= d
         IN IF t[1] = "{" /\ closes # {} /\ j >= 3
            THEN <<Group(Join(SubSeq(t, 2, j - 1)))>>
                 \o SubPlaceholders(SubSeq(t, j + 1, Len(t)))
            ELSE <<Lit(t[1])>> \o SubPlaceholders(Tail(t))

\* _compile_path: the items between "^" and "/?$"
CompilePath(path) == SubPlaceholders(RStrip(path))

NoMatch == [t |-> "NoMatch"]
Matched(groups) == [t |-> "Match", groups |-> groups]

\* the length of the run of non-separator characters of p that starts at j
RECURSIVE RunLen(_, _)
RunLen(p, j) ==
    IF j <= Len(p) /\ p[j] # "/" THEN 1 + RunLen(p, j + 1) ELSE 0

\* A character of the template outside a placeholder goes into the
\* expression unescaped: "." there stands for any one character but a
\* newline, every other character modelled here for itself.
LitMatches(c, ch) == IF c = "." THEN Len(ch) = 1 /\ ch # "\n" ELSE ch = c

RECURSIVE MatchAtOneChar(_, _, _, _)
\* the matcher with the group written [^/], its "+" lost
MatchAtOneChar(pattern, i, p, j) ==
    IF i > Len(pattern)
    THEN IF j = Len(p) + 1 \/ (j = Len(p) /\ p[j] = "/")
         THEN Matched(EmptyDict)
         ELSE NoMatch
    ELSE IF pattern[i].k = "lit"
    THEN IF j <= Len(p) /\ LitMatches(pattern[i].c, p[j])
         THEN MatchAtOneChar(pattern, i + 1, p, j + 1)
         ELSE NoMatch
    ELSE IF j <= Len(p) /\ p[j] # "/"
              /\ MatchAtOneChar(pattern, i + 1, p, j + 1) # NoMatch
         THEN Matched((pattern[i].name :> p[j])
                      @@ MatchAtOneChar(pattern, i + 1, p, j + 1).groups)
         ELSE NoMatch

RECURSIVE MatchAt(_, _, _, _)
\* The backtracking matcher on items i.. of the pattern against p from j.
\* A group [^/]+ is greedy: the longest run that lets the rest match wins.
\* After the last item comes "/?$".
MatchAt(pattern, i, p, j) ==
    IF i > Len(pattern)
    THEN IF j = Len(p) + 1 \/ (j = Len(p) /\ p[j] = "/")
         THEN Matched(EmptyDict)
         ELSE NoMatch
    ELSE IF pattern[i].k = "lit"
    THEN IF j <= Len(p) /\ LitMatches(pattern[i].c, p[j])
         THEN MatchAt(pattern, i + 1, p, j + 1)
         ELSE NoMatch
    ELSE LET fits == {n \in 1..RunLen(p, j) :
                        MatchAt(pattern, i + 1, p, j + n) # NoMatch}
             n == CHOOSE m \in fits : \A o \in fits : o <= m
         IN IF fits = {} THEN NoMatch
            ELSE Matched((pattern[i].name :> Join(SubSeq(p, j, j + n - 1)))
                         @@ MatchAt(pattern, i + 1, p, j + n).groups)

\* pattern.match(path), the pattern being anchored by "^"
PatternMatch(pattern, p) == MatchAt(pattern, 1, p, 1)

(***************************************************************************)
(* Handlers: inspect.signature and the body                                *)
(***************************************************************************)
Param(name, ann, required) ==
    [name |-> name, ann |-> ann, required |-> required]

\* The endpoint functions of main.py that the router is exercised with, and
\* two further handlers, input to the dispatcher: one whose parameters
\* carry no annotation, one that takes a model with a nested model,
\*     def echo(a, b, data=None): return {"a": a, "b": b}
\*     def submit_pitch(pitch: Pitch): return {"message": "Pitch received"}
Handlers ==
    {"read_root", "upload_brief", "configure_agents", "simulate",
     "get_report", "echo", "submit_pitch"}

\* inspect.signature(func).parameters, in order
Signature(func) ==
    CASE func = "read_root" -> <<>>
      [] func = "upload_brief" -> <<Param("brief", "Brief", TRUE)>>
      [] func = "configure_agents" ->
           <<Param("session_id", "str", TRUE),
             Param("config", "AgentConfig", TRUE)>>
      [] func = "simulate" -> <<Param("session_id", "str", TRUE)>>
      [] func = "get_report" -> <<Param("session_id", "str", TRUE)>>
      [] func = "echo" ->
           <<Param("a", "_empty", TRUE), Param("b", "_empty", TRUE),
             Param("data", "_empty", FALSE)>>
      [] func = "submit_pitch" -> <<Param("pitch", "Pitch", TRUE)>>

\* async def
IsAsync(func) == func \in {"simulate"}

HTTPException(status_code, detail) ==
    [t |-> "raise", exc |-> "HTTPException", status_code |-> status_code,
     detail |-> detail]
AttributeError == [t |-> "raise", exc |-> "AttributeError"]
Coroutine(func) == [t |-> "coroutine", func |-> func]

\* uuid.uuid4() values
SessionIds == {"s1", "s2", "s3"}

\* what simulator.run / run_simulation stored for a session
SimulationResults ==
    {[adoption_score |-> PyInt(70),
      top_objections |-> PyList(<<PyStr("price")>>),
      must_fix |-> PyList(<<>>)],
     [adoption_score |-> PyInt(40),
      top_objections |-> PyList(<<>>),
      must_fix |-> PyList(<<PyStr("onboarding")>>)]}

\* configure_agents, lines 75-80: the sum of the four percentages
ConfigTotal(config) ==
    LET parts == <<GetAttr(config, "customer_percentage"),
                   GetAttr(config, "competitor_percentage"),
                   GetAttr(config, "influencer_percentage"),
                   GetAttr(config, "internal_team_percentage")>>
    IN IF \A k \in 1..4 : parts[k].t = "int"
       THEN PyInt(parts[1].i + parts[2].i + parts[3].i + parts[4].i)
       ELSE IF \A k \in 1..4 : parts[k].t = "str"
       THEN PyStr(parts[1].s \o parts[2].s \o parts[3].s \o parts[4].s)
       ELSE TypeError

\* The outcomes the body of a handler can have on its arguments. The
\* session store the bodies read is left open here: a session id may or may
\* not be a key of it, with or without a configuration or a result.
BodyOutcomes(func, kwargs) ==
    CASE func = "read_root" ->
           {PyDict("message" :> PyStr("Welcome to Dejavas API"))}
      [] func = "upload_brief" ->
           {PyDict(("session_id" :> PyStr(sid))
                   @@ ("message" :> PyStr("Brief uploaded successfully")))
              : sid \in SessionIds}
      [] func = "configure_agents" ->
           {HTTPException(404, "Session not found")}
           \cup (IF kwargs["config"].t # "obj" THEN {AttributeError}
                 ELSE LET total == ConfigTotal(kwargs["config"])
                      IN IF IsRaise(total) THEN {total}
                         ELSE IF total # PyInt(100)
                         THEN {HTTPException(
                                 400, "Agent percentages must sum to 100")}
                         ELSE {PyDict("message" :>
                                        PyStr("Agent configuration saved"))})
      [] func = "get_report" ->
           {HTTPException(404, "Session not found"),
            HTTPException(400, "Simulation not completed")}
           \cup {BaseModelInit("SimulationReport",
                               ("session_id" :> kwargs["session_id"])
                               @@ ("adoption_score" :> r.adoption_score)
                               @@ ("top_objections" :> r.top_objections)
                               @@ ("must_fix" :> r.must_fix))
                   : r \in SimulationResults}
      [] func = "echo" ->
           {PyDict(("a" :> kwargs["a"]) @@ ("b" :> kwargs["b"]))}
      [] func = "submit_pitch" ->
           {PyDict("message" :> PyStr("Pitch received"))}

\* func(**kwargs): a required parameter without an argument is a TypeError;
\* calling an async def only makes the coroutine object, its body not run
Invoke(func, kwargs) ==
    LET sig == Signature(func)
    IN IF \E k \in 1..Len(sig) :
            sig[k].required /\ sig[k].name \notin DOMAIN kwargs
       THEN {TypeError}
       ELSE IF IsAsync(func) THEN {Coroutine(func)}
       ELSE BodyOutcomes(func, kwargs)

(***************************************************************************)
(* fastapi.FastAPI                                                         *)
(***************************************************************************)
Route(pattern, func) == [pattern |-> pattern, func |-> func]

\* __init__
InitRoutes == [m \in {"GET", "POST"} |-> <<>>]

\* the new entry put in front of the verb's list
AddRouteFront(rs, method, path, func) ==
    [rs EXCEPT ![method] = <<Route(CompilePath(path), func)>> \o @]

\* _add_route and the decorator it returns
AddRoute(rs, method, path, func) ==
    [rs EXCEPT ![method] = Append(@, Route(CompilePath(path), func))]

\* one list of entries serving every verb
RoutesForAnyVerb(rs, method) == rs["GET"] \o rs["POST"]

\* self._routes.get(method, [])
RoutesFor(rs, method) == IF method \in DOMAIN rs THEN rs[method] ELSE <<>>

\* the payload consulted before the path parameters
BindParamPayloadFirst(param, params, json) ==
    IF json # PyNone /\ param.ann # "_empty"
    THEN IF IsModelClass(param.ann) THEN ParseObj(param.ann, json)
         ELSE json
    ELSE IF param.name \in DOMAIN params THEN PyStr(params[param.name])
    ELSE Unset

\* a non-model parameter given the payload's entry of its own name
BindParamByKey(param, params, json) ==
    IF param.name \in DOMAIN params THEN PyStr(params[param.name])
    ELSE IF json # PyNone /\ param.ann # "_empty"
         THEN IF IsModelClass(param.ann) THEN ParseObj(param.ann, json)
              ELSE DictGet(json.d, param.name)
    ELSE Unset

\* a model parameter given the payload as it came
BindParamRaw(param, params, json) ==
    IF param.name \in DOMAIN params THEN PyStr(params[param.name])
    ELSE IF json # PyNone /\ param.ann # "_empty" THEN json
    ELSE Unset

\* _call, lines 53-61: the argument bound to one parameter, Unset when the
\* parameter is left out of kwargs
BindParam(param, params, json) ==
    IF param.name \in DOMAIN params THEN PyStr(params[param.name])
    ELSE IF json # PyNone /\ param.ann # "_empty"
         THEN IF IsModelClass(param.ann) THEN ParseObj(param.ann, json)
              ELSE json
    ELSE Unset

\* _call, lines 50-61: the kwargs dict, or the error parse_obj raised
BindAll(func, params, json) ==
    LET sig == Signature(func)
        bound == [k \in 1..Len(sig) |-> BindParam(sig[k], params, json)]
        names == {sig[k].name : k \in {j \in 1..Len(sig) : bound[j] # Unset}}
    IN IF \E k \in 1..Len(sig) : IsRaise(bound[k])
       THEN TypeError
       ELSE PyDict([n \in names |->
                      bound[CHOOSE k \in 1..Len(sig) : sig[k].name = n]])

\* the unmatched request answered as a bad request
NotFoundAsBadRequest == HTTPException(400, "Session not found")

\* _call, line 63
NotFound == HTTPException(404, "Session not found")

\* _call, lines 46-49: the entries of the verb, in order, that match p
MatchingRoutes(rs, method, p) ==
    {k \in 1..Len(RoutesFor(rs, method)) :
       PatternMatch(RoutesFor(rs, method)[k].pattern, p) # NoMatch}

\* _call with the last matching entry served instead of the first
CallLastMatch(rs, method, path, json) ==
    LET p == RStrip(path)
        entries == RoutesFor(rs, method)
        hits == MatchingRoutes(rs, method, p)
    IN IF hits = {}
       THEN {[called |-> <<>>, res |-> HTTPException(404, "Session not found")]}
       ELSE LET k == CHOOSE h \in hits : \A o \in hits : h >= o
                func == entries[k].func
                params == PatternMatch(entries[k].pattern, p).groups
                kwargs == BindAll(func, params, json)
            IN IF IsRaise(kwargs)
               THEN {[called |-> <<>>, res |-> kwargs]}
               ELSE {[called |-> <<[func |-> func, kwargs |-> kwargs.d]>>,
                      res |-> r] : r \in Invoke(func, kwargs.d)}

\* _call: the possible (called, res) pairs of one dispatch
Call(rs, method, path, json) ==
    LET p == RStrip(path)
        entries == RoutesFor(rs, method)
        hits == MatchingRoutes(rs, method, p)
    IN IF hits = {}
       THEN {[called |-> <<>>, res |-> NotFound]}
       ELSE LET k == CHOOSE h \in hits : \A o \in hits : h <= o
                func == entries[k].func
                params == PatternMatch(entries[k].pattern, p).groups
                kwargs == BindAll(func, params, json)
            IN IF IsRaise(kwargs)
               THEN {[called |-> <<>>, res |-> kwargs]}
               ELSE {[called |-> <<[func |-> func, kwargs |-> kwargs.d]>>,
                      res |-> r] : r \in Invoke(func, kwargs.d)}

(***************************************************************************)
(* Inputs of the router                                                    *)
(***************************************************************************)
MaxRoutes == 2
MaxPathLen == 5

PathChars == {"/", "x"}
\* the request paths: the empty one and those that begin with a separator
Paths ==
    {<<>>} \cup {<<"/">> \o s : s \in SeqsUpTo(PathChars, MaxPathLen - 1)}
Methods == {"GET", "POST", "PUT"}

Decl(method, path, func) == [method |-> method, path |-> path, func |-> func]

\* the registrations the router is exercised with
RouteDecls ==
    {Decl("GET", <<"/", "x">>, "read_root"),
     Decl("GET", <<"/", "{", "session_id", "}">>, "get_report"),
     Decl("POST", <<"/", "x", "x", "/">>, "upload_brief"),
     Decl("POST", <<"/", "{", "session_id", "}">>, "configure_agents"),
     Decl("POST", <<"/", "{", "config", "}">>, "configure_agents"),
     Decl("GET", <<"/", "{", "a", "}", "/", "{", "b", "}">>, "echo"),
     Decl("GET", <<"/", "{", "a", "}", "{", "b", "}">>, "echo"),
     Decl("POST", <<"/", "x">>, "submit_pitch"),
     Decl("GET", <<"/", "/">>, "read_root"),
     Decl("GET", <<"/", "x", ".", "x">>, "read_root")}

BriefPayload ==
    PyDict(("product_name" :> PyStr("Widget"))
           @@ ("features" :>
                 PyList(<<PyDict(("title" :> PyStr("Fast"))
                                 @@ ("description" :> PyStr("very fast"))),
                          PyDict(("title" :> PyStr("Cheap"))
                                 @@ ("description" :> PyStr("low price")))>>)))

ConfigPayload ==
    PyDict(("session_id" :> PyStr("from-body"))
           @@ ("customer_percentage" :> PyInt(60))
           @@ ("competitor_percentage" :> PyInt(20))
           @@ ("influencer_percentage" :> PyInt(10))
           @@ ("internal_team_percentage" :> PyInt(10)))

PitchPayload ==
    PyDict(("headline" :> PyStr("Launch"))
           @@ ("lead" :> PyDict(("title" :> PyStr("Fast"))
                                @@ ("description" :> PyStr("very fast")))))

Payloads == {PyNone, BriefPayload, ConfigPayload, PitchPayload}

(***************************************************************************)
(* The router and dispatcher: register and _call in any order              *)
(***************************************************************************)
RouterIdle ==
    /\ routes = InitRoutes
    /\ declared = <<>>
    /\ req = Unset
    /\ called = <<>>
    /\ res = Unset

\* serve() not handling a request
ServerIdle ==
    /\ sreq = Unset
    /\ wfile = <<>>
    /\ exc = Unset

\* main.py, line 51: simulations = {}
StoreEmpty ==
    /\ simulations = EmptyDict
    /\ uploads = 0

\* no connection made yet
LoopIdle ==
    /\ backlog = <<>>
    /\ active = <<>>

Init == BinderIdle /\ RouterIdle /\ ServerIdle /\ StoreEmpty /\ LoopIdle

\* @app.get(path) / @app.post(path) applied to func
Register(d) ==
    /\ req = Unset
    /\ Len(declared) < MaxRoutes
    /\ routes' = AddRoute(routes, d.method, d.path, d.func)
    /\ declared' = Append(declared, d)
    /\ UNCHANGED <<req, called, res>>
    /\ UNCHANGED binderVars
    /\ UNCHANGED appVars
    /\ UNCHANGED loopVars
    /\ UNCHANGED serverVars

\* app._call(method, path, json)
DoCall(method, path, json) ==
    /\ req = Unset
    /\ \E o \in Call(routes, method, path, json) :
         /\ called' = o.called
         /\ res' = o.res
    /\ req' = [method |-> method, path |-> path, json |-> json]
    /\ UNCHANGED <<routes, declared>>
    /\ UNCHANGED binderVars
    /\ UNCHANGED appVars
    /\ UNCHANGED loopVars
    /\ UNCHANGED serverVars

\* the caller is done with what _call returned or raised
Return ==
    /\ req # Unset
    /\ req' = Unset
    /\ called' = <<>>
    /\ res' = Unset
    /\ UNCHANGED <<routes, declared>>
    /\ UNCHANGED binderVars
    /\ UNCHANGED appVars
    /\ UNCHANGED loopVars
    /\ UNCHANGED serverVars

Next ==
    \/ \E d \in RouteDecls : Register(d)
    \/ \E method \in Methods, path \in Paths, json \in Payloads :
         DoCall(method, path, json)
    \/ Return

Spec == Init /\ [][Next]_vars

(***************************************************************************)
(* FastAPI.serve: the json module and Handler._dispatch                    *)
(***************************************************************************)
RECURSIVE KeySeq(_)
\* the keys of a dict one after the other (Python keeps insertion order;
\* the text below differs from Python's in the order of keys only)
KeySeq(S) ==
    IF S = {} THEN <<>>
    ELSE LET k == CHOOSE key \in S : TRUE IN <<k>> \o KeySeq(S \ {k})

RECURSIVE JoinWith(_, _)
\* sep.join(texts)
JoinWith(texts, sep) ==
    IF texts = <<>> THEN ""
    ELSE IF Len(texts) = 1 THEN texts[1]
    ELSE texts[1] \o sep \o JoinWith(Tail(texts), sep)

RECURSIVE JsonSerializable(_)
\* json.dumps accepts None, str, int, list and dict, all the way down
JsonSerializable(v) ==
    CASE v.t \in {"None", "str", "int"} -> TRUE
      [] v.t = "list" -> \A k \in 1..Len(v.l) : JsonSerializable(v.l[k])
      [] v.t = "dict" -> \A key \in DOMAIN v.d : JsonSerializable(v.d[key])
      [] OTHER -> FALSE

RECURSIVE JsonText(_)
\* the text json.dumps writes for a serializable value
JsonText(v) ==
    CASE v.t = "None" -> "null"
      [] v.t = "str" -> "\"" \o v.s \o "\""
      [] v.t = "int" -> ToString(v.i)
      [] v.t = "list" ->
           "[" \o JoinWith([k \in 1..Len(v.l) |-> JsonText(v.l[k])], ", ")
               \o "]"
      [] v.t = "dict" ->
           LET keys == KeySeq(DOMAIN v.d)
           IN "{" \o JoinWith([k \in 1..Len(keys) |->
                                 "\"" \o keys[k] \o "\": "
                                      \o JsonText(v.d[keys[k]])], ", ")
                  \o "}"

\* json.dumps(value): the text, or TypeError for what is not serializable
JsonDumps(v) ==
    IF JsonSerializable(v) THEN PyStr(JsonText(v)) ELSE TypeError

\* the payloads whose text a client sends
BadConfigPayload ==
    PyDict(("customer_percentage" :> PyInt(60))
           @@ ("competitor_percentage" :> PyInt(20))
           @@ ("influencer_percentage" :> PyInt(10))
           @@ ("internal_team_percentage" :> PyInt(5)))
SentPayloads ==
    {PyDict(EmptyDict), BriefPayload, ConfigPayload, BadConfigPayload}

JSONDecodeError == [t |-> "raise", exc |-> "JSONDecodeError"]

\* json.loads(text): the value whose text it is, or JSONDecodeError
JsonLoads(text) ==
    IF \E v \in SentPayloads : JsonText(v) = text
    THEN CHOOSE v \in SentPayloads : JsonText(v) = text
    ELSE JSONDecodeError

\* send_response(status), the two send_header calls, end_headers and
\* wfile.write(content)
Response(status, content) ==
    [status |-> status,
     headers |-> <<<<"Content-Type", "application/json">>,
                   <<"Content-Length", ToString(Len(content))>>>>,
     body |-> content]

\* an empty body decoded as the empty object instead of no payload
RequestPayloadEmptyObject(r) ==
    LET length == IF r.method = "POST" THEN r.content_length ELSE 0
        body == IF length # 0 THEN r.body ELSE ""
    IN JsonLoads(IF body # "" THEN body ELSE "{}")

\* Handler._dispatch(method), lines 82-84: the payload of the request, the
\* body being read only for POST and only as far as Content-Length says
RequestPayload(r) ==
    LET length == IF r.method = "POST" THEN r.content_length ELSE 0
        body == IF length # 0 THEN r.body ELSE ""
    IN IF body # "" THEN JsonLoads(body) ELSE PyNone

\* every exception caught and answered, the others with status 500
RespondCatchAll(out) ==
    IF IsRaise(out)
    THEN [wfile |-> <<Response(IF out.exc = "HTTPException"
                               THEN out.status_code ELSE 500,
                               JsonText(PyDict("detail" :>
                                  PyStr(IF out.exc = "HTTPException"
                                        THEN out.detail ELSE out.exc))))>>,
          exc |-> Unset]
    ELSE LET result == IF out.t = "obj" THEN ModelDict(out) ELSE out
             content == JsonDumps(result)
         IN IF IsRaise(content)
            THEN [wfile |-> <<Response(500,
                     JsonText(PyDict("detail" :> PyStr(content.exc))))>>,
                  exc |-> Unset]
            ELSE [wfile |-> <<Response(200, content.s)>>, exc |-> Unset]

\* Handler._dispatch, lines 86-100: what is written for a _call outcome, and
\* the exception that gets out, Unset when none does
Respond(out) ==
    IF IsRaise(out)
    THEN IF out.exc = "HTTPException"
         THEN [wfile |-> <<Response(out.status_code,
                                    JsonText(PyDict("detail" :>
                                                      PyStr(out.detail))))>>,
               exc |-> Unset]
         ELSE [wfile |-> <<>>, exc |-> out]
    ELSE LET result == IF out.t = "obj" THEN ModelDict(out) ELSE out
             content == JsonDumps(result)
         IN IF IsRaise(content)
            THEN [wfile |-> <<>>, exc |-> content]
            ELSE [wfile |-> <<Response(200, content.s)>>, exc |-> Unset]

(***************************************************************************)
(* The application served: the routes main.py registers, in its order. A   *)
(* word stands for a run of characters other than the separator and the    *)
(* braces.                                                                 *)
(***************************************************************************)
MainDecls ==
    <<Decl("GET", <<"/">>, "read_root"),
      Decl("POST", <<"/", "upload-brief", "/">>, "upload_brief"),
      Decl("POST", <<"/", "configure-agents", "/", "{", "session_id", "}">>,
           "configure_agents"),
      Decl("POST", <<"/", "simulate", "/", "{", "session_id", "}">>,
           "simulate"),
      Decl("GET", <<"/", "report", "/", "{", "session_id", "}">>,
           "get_report")>>

RECURSIVE AddRoutes(_, _)
\* the decorators applied one after the other
AddRoutes(rs, decls) ==
    IF decls = <<>> THEN rs
    ELSE AddRoutes(AddRoute(rs, Head(decls).method, Head(decls).path,
                            Head(decls).func), Tail(decls))

\* the request targets clients ask for
ServedPaths ==
    {<<"/">>, <<"/", "missing">>,
     <<"/", "upload-brief">>, <<"/", "upload-brief", "/">>,
     <<"/", "configure-agents", "/", "s1">>,
     <<"/", "simulate", "/", "s1">>,
     <<"/", "report", "/", "s1">>, <<"/", "report", "/", "s1", "/">>}

\* the bodies clients send: none, the text of a payload, a broken text
SentBodies == {""} \cup {JsonText(v) : v \in SentPayloads} \cup {"{\"a\""}

\* the requests: the Content-Length header counts the body sent, or is
\* absent (read as 0)
Requests ==
    UNION {{[method |-> m, path |-> p, content_length |-> n, body |-> b] :
               m \in {"GET", "POST"}, p \in ServedPaths, n \in {0, Len(b)}}
           : b \in SentBodies}

InitServer ==
    /\ BinderIdle
    /\ routes = AddRoutes(InitRoutes, MainDecls)
    /\ declared = MainDecls
    /\ req = Unset
    /\ called = <<>>
    /\ res = Unset
    /\ ServerIdle
    /\ StoreEmpty
    /\ LoopIdle

\* Handler._dispatch(method) for one request, from reading it to the
\* response written or the exception leaving
Dispatch(r) ==
    /\ sreq = Unset
    /\ sreq' = r
    /\ LET payload == RequestPayload(r)
       IN IF IsRaise(payload)
          THEN /\ wfile' = <<>>
               /\ exc' = payload
               /\ UNCHANGED <<req, called, res>>
          ELSE \E o \in Call(routes, r.method, r.path, payload) :
                 /\ req' = [method |-> r.method, path |-> r.path,
                            json |-> payload]
                 /\ called' = o.called
                 /\ res' = o.res
                 /\ wfile' = Respond(o.res).wfile
                 /\ exc' = Respond(o.res).exc
    /\ UNCHANGED <<routes, declared>>
    /\ UNCHANGED binderVars
    /\ UNCHANGED appVars
    /\ UNCHANGED loopVars

\* do_GET
DoGET(r) == r.method = "GET" /\ Dispatch(r)

\* do_POST
DoPOST(r) == r.method = "POST" /\ Dispatch(r)

\* the request is finished with; serve_forever takes the next one
NextRequest ==
    /\ sreq # Unset
    /\ sreq' = Unset
    /\ wfile' = <<>>
    /\ exc' = Unset
    /\ req' = Unset
    /\ called' = <<>>
    /\ res' = Unset
    /\ UNCHANGED <<routes, declared>>
    /\ UNCHANGED binderVars
    /\ UNCHANGED appVars
    /\ UNCHANGED loopVars

NextServer ==
    \/ \E r \in Requests : DoGET(r)
    \/ \E r \in Requests : DoPOST(r)
    \/ NextRequest

SpecServer == InitServer /\ [][NextServer]_vars

(***************************************************************************)
(* FastAPI.serve, the loop: server = HTTPServer((host, port), Handler) and *)
(* server.serve_forever(). Clients connect at any time and wait in the     *)
(* listening socket's queue; serve_forever accepts a connection, has       *)
(* Handler handle its request and shuts the connection down.               *)
(***************************************************************************)
MaxBacklog == 2

Request(method, path, body) ==
    [method |-> method, path |-> path, content_length |-> Len(body),
     body |-> body]

\* the requests the clients of the loop make
LoopRequests ==
    {Request("GET", <<"/">>, ""),
     Request("GET", <<"/", "missing">>, ""),
     Request("POST", <<"/", "upload-brief", "/">>, JsonText(BriefPayload)),
     Request("POST", <<"/", "simulate", "/", "s1">>, "")}

InitLoop ==
    /\ BinderIdle
    /\ routes = AddRoutes(InitRoutes, MainDecls)
    /\ declared = MainDecls
    /\ req = Unset
    /\ called = <<>>
    /\ res = Unset
    /\ ServerIdle
    /\ StoreEmpty
    /\ LoopIdle

\* a server that hands each accepted connection to a thread of its own
MayAcceptThreading(act) == TRUE

\* HTTPServer handles a connection inside serve_forever's own iteration:
\* process_request returns, and the loop gets back to accepting, only when
\* the handler has finished and the connection is shut down
MayAccept(act) == act = <<>>

\* a client connects and sends its request
Connect(r) ==
    /\ Len(backlog) < MaxBacklog
    /\ backlog' = Append(backlog, r)
    /\ UNCHANGED active
    /\ UNCHANGED <<binderVars, routerVars, serverVars, appVars>>

\* serve_forever accepts the next connection; Handler is constructed for it
\* and _dispatch begins
Accept ==
    /\ backlog # <<>>
    /\ MayAccept(active)
    /\ active' = Append(active, [r |-> Head(backlog), phase |-> "dispatching",
                                  wfile |-> <<>>, exc |-> Unset])
    /\ backlog' = Tail(backlog)
    /\ UNCHANGED <<binderVars, routerVars, serverVars, appVars>>

\* Handler._dispatch runs for the request: the response is written or the
\* exception leaves
Handle(i) ==
    /\ i \in 1..Len(active)
    /\ active[i].phase = "dispatching"
    /\ LET r == active[i].r
           payload == RequestPayload(r)
       IN IF IsRaise(payload)
          THEN active' = [active EXCEPT ![i].phase = "done",
                                        ![i].exc = payload]
          ELSE \E o \in Call(routes, r.method, r.path, payload) :
                 active' = [active EXCEPT ![i].phase = "done",
                                          ![i].wfile = Respond(o.res).wfile,
                                          ![i].exc = Respond(o.res).exc]
    /\ UNCHANGED backlog
    /\ UNCHANGED <<binderVars, routerVars, serverVars, appVars>>

\* the connection of a handled request is shut down
Close(i) ==
    /\ i \in 1..Len(active)
    /\ active[i].phase = "done"
    /\ active' = [k \in 1..(Len(active) - 1) |->
                    IF k < i THEN active[k] ELSE active[k + 1]]
    /\ UNCHANGED backlog
    /\ UNCHANGED <<binderVars, routerVars, serverVars, appVars>>

NextLoop ==
    \/ \E r \in LoopRequests : Connect(r)
    \/ Accept
    \/ \E i \in 1..(MaxBacklog + 1) : Handle(i)
    \/ \E i \in 1..(MaxBacklog + 1) : Close(i)

SpecLoop == InitLoop /\ [][NextLoop]_vars

(***************************************************************************)
(* main.py: the session store and the bodies of the session endpoints.     *)
(* A body is the set of its outcomes [sims, res]: the store it leaves and  *)
(* what it returns or raises. The simulators it calls (langgraph_simulation*)
(* and simulation) are not part of these sources: a run may return any     *)
(* result or raise.                                                        *)
(***************************************************************************)
MaxSessions == 2

RuntimeError == [t |-> "raise", exc |-> "RuntimeError"]
KeyError == [t |-> "raise", exc |-> "KeyError"]

\* bool(v), as "if not v" tests it
Truthy(v) ==
    CASE v.t = "None" -> FALSE
      [] v.t = "str" -> v.s # ""
      [] v.t = "int" -> v.i # 0
      [] v.t = "dict" -> DOMAIN v.d # {}
      [] v.t = "list" -> v.l # <<>>
      [] OTHER -> TRUE

\* upload_brief, lines 62-66: the session stored for a brief
NewSession(brief) ==
    [brief |-> brief, agent_config |-> PyNone, simulation_result |-> PyNone]

\* simulations[session_id] = session
StoreSet(sims, session_id, session) ==
    [k \in DOMAIN sims \cup {session_id} |->
       IF k = session_id THEN session ELSE sims[k]]

\* str(uuid.uuid4()): an id no session has
FreshIds(sims) == SessionIds \ DOMAIN sims

\* upload_brief with an id that uuid4 gave before: the session under it is
\* replaced
UploadBriefAnyId(sims, brief) ==
    {[sims |-> StoreSet(sims, sid, NewSession(brief)),
      res |-> PyDict(("session_id" :> PyStr(sid))
                     @@ ("message" :> PyStr("Brief uploaded successfully")))]
       : sid \in SessionIds}

\* upload_brief(brief)
UploadBriefBody(sims, brief) ==
    {[sims |-> StoreSet(sims, sid, NewSession(brief)),
      res |-> PyDict(("session_id" :> PyStr(sid))
                     @@ ("message" :> PyStr("Brief uploaded successfully")))]
       : sid \in FreshIds(sims)}

\* configure_agents with the configuration stored whatever its total
ConfigureAgentsUnchecked(sims, session_id, config) ==
    IF session_id \notin DOMAIN sims
    THEN {[sims |-> sims, res |-> HTTPException(404, "Session not found")]}
    ELSE {[sims |-> [sims EXCEPT ![session_id].agent_config = config],
           res |-> PyDict("message" :> PyStr("Agent configuration saved"))]}

\* configure_agents(session_id, config)
ConfigureAgentsBody(sims, session_id, config) ==
    IF session_id \notin DOMAIN sims
    THEN {[sims |-> sims, res |-> HTTPException(404, "Session not found")]}
    ELSE IF config.t # "obj"
    THEN {[sims |-> sims, res |-> AttributeError]}
    ELSE LET total == ConfigTotal(config)
         IN IF IsRaise(total)
            THEN {[sims |-> sims, res |-> total]}
            ELSE IF total # PyInt(100)
            THEN {[sims |-> sims,
                   res |-> HTTPException(
                             400, "Agent percentages must sum to 100")]}
            ELSE {[sims |-> [sims EXCEPT ![session_id].agent_config = config],
                   res |-> PyDict("message" :>
                                    PyStr("Agent configuration saved"))]}

\* a simulation result as the dict rerun_simulation builds, lines 138-142
ResultDict(r) ==
    PyDict(("adoption_score" :> r.adoption_score)
           @@ ("top_objections" :> r.top_objections)
           @@ ("must_fix" :> r.must_fix))

\* await advanced_simulator.run_simulation(brief, config, num_rounds=3),
\* line 102: whatever it returns, or an exception
RunSimulationOutcomes(brief, config) ==
    {ResultDict(r) : r \in SimulationResults}
      \cup {PyDict(EmptyDict), RuntimeError}

\* simulator.run(brief, config), line 136: the three values it returns, or
\* an exception
SimulatorRunOutcomes(brief, config) ==
    {ResultDict(r) : r \in SimulationResults} \cup {RuntimeError}

\* simulate with a session created for an id that has none
SimulateCreatingSession(sims, session_id) ==
    {[sims |-> StoreSet(sims, session_id, NewSession(PyNone)),
      res |-> HTTPException(400, "Agent configuration missing")]}

\* simulate(session_id), the coroutine run to its end
SimulateBody(sims, session_id) ==
    IF session_id \notin DOMAIN sims
    THEN {[sims |-> sims, res |-> HTTPException(404, "Session not found")]}
    ELSE IF ~Truthy(sims[session_id].agent_config)
    THEN {[sims |-> sims,
           res |-> HTTPException(400, "Agent configuration missing")]}
    ELSE {IF IsRaise(result) THEN [sims |-> sims, res |-> result]
          ELSE [sims |-> [sims EXCEPT
                            ![session_id].simulation_result = result],
                res |-> result]
            : result \in RunSimulationOutcomes(sims[session_id].brief,
                                                sims[session_id].agent_config)}

\* get_report handing the result out once: the session's result is unset
\* when the report is made
GetReportConsuming(sims, session_id) ==
    IF session_id \notin DOMAIN sims
    THEN {[sims |-> sims, res |-> HTTPException(404, "Session not found")]}
    ELSE LET result == sims[session_id].simulation_result
         IN IF ~Truthy(result)
            THEN {[sims |-> sims,
                   res |-> HTTPException(400, "Simulation not completed")]}
            ELSE {[sims |-> [sims EXCEPT
                               ![session_id].simulation_result = PyNone],
                   res |-> BaseModelInit(
                      "SimulationReport",
                      ("session_id" :> PyStr(session_id))
                      @@ ("adoption_score" :> result.d["adoption_score"])
                      @@ ("top_objections" :> result.d["top_objections"])
                      @@ ("must_fix" :> result.d["must_fix"]))]}

\* get_report(session_id)
GetReportBody(sims, session_id) ==
    IF session_id \notin DOMAIN sims
    THEN {[sims |-> sims, res |-> HTTPException(404, "Session not found")]}
    ELSE LET result == sims[session_id].simulation_result
         IN IF ~Truthy(result)
            THEN {[sims |-> sims,
                   res |-> HTTPException(400, "Simulation not completed")]}
            ELSE IF result.t # "dict"
                    \/ ~({"adoption_score", "top_objections", "must_fix"}
                           \subseteq DOMAIN result.d)
            THEN {[sims |-> sims, res |-> KeyError]}
            ELSE {[sims |-> sims,
                   res |-> BaseModelInit(
                      "SimulationReport",
                      ("session_id" :> PyStr(session_id))
                      @@ ("adoption_score" :> result.d["adoption_score"])
                      @@ ("top_objections" :> result.d["top_objections"])
                      @@ ("must_fix" :> result.d["must_fix"]))]}

\* rerun_simulation with the check of the configuration left out
RerunSimulationUnchecked(sims, session_id) ==
    IF session_id \notin DOMAIN sims
    THEN {[sims |-> sims, res |-> HTTPException(404, "Session not found")]}
    ELSE {IF IsRaise(result) THEN [sims |-> sims, res |-> result]
          ELSE [sims |-> [sims EXCEPT
                            ![session_id].simulation_result = result],
                res |-> result]
            : result \in SimulatorRunOutcomes(sims[session_id].brief,
                                               sims[session_id].agent_config)}

\* rerun_simulation(session_id)
RerunSimulationBody(sims, session_id) ==
    IF session_id \notin DOMAIN sims
    THEN {[sims |-> sims, res |-> HTTPException(404, "Session not found")]}
    ELSE IF ~Truthy(sims[session_id].agent_config)
    THEN {[sims |-> sims,
           res |-> HTTPException(400, "Agent configuration missing")]}
    ELSE {IF IsRaise(result) THEN [sims |-> sims, res |-> result]
          ELSE [sims |-> [sims EXCEPT
                            ![session_id].simulation_result = result],
                res |-> result]
            : result \in SimulatorRunOutcomes(sims[session_id].brief,
                                               sims[session_id].agent_config)}

\* health_check(): no integration is registered
HealthCheckBody(sims) ==
    {[sims |-> sims,
      res |-> PyDict(("status" :> PyStr("healthy"))
                     @@ ("version" :> PyStr("1.0.0"))
                     @@ ("integrations" :> PyList(<<>>))
                     @@ ("simulations_running" :>
                           PyInt(Cardinality(DOMAIN sims)))
                     @@ ("ai_powered" :> PyBool(TRUE))
                     @@ ("llm_available" :> PyBool(TRUE)))]}

\* str(e) of an exception caught: the detail of an HTTPException (built by
\* super().__init__(detail)), nothing for one raised without arguments
ExcText(e) == IF e.exc = "HTTPException" THEN e.detail ELSE ""

\* await integration_manager.process_content(content, ...): the response
\* formatted from a simulation result, or an exception of the scan or the
\* simulation
ProcessContentOutcomes(content) ==
    {ResultDict(r) : r \in SimulationResults} \cup {RuntimeError}

\* analyze_content, lines 157-164: the try block
AnalyzeContentTry(request) ==
    IF Truthy(GetAttr(request, "url"))
    THEN ProcessContentOutcomes(GetAttr(request, "url"))
    ELSE IF Truthy(GetAttr(request, "text"))
    THEN ProcessContentOutcomes(GetAttr(request, "text"))
    ELSE {HTTPException(400, "Either URL or text must be provided")}

\* analyze_content(request), the coroutine run to its end: except Exception
\* takes whatever the try block raised
AnalyzeContentBody(sims, request) ==
    {[sims |-> sims,
      res |-> IF IsRaise(o)
              THEN HTTPException(500, "Analysis failed: " \o ExcText(o))
              ELSE o]
       : o \in AnalyzeContentTry(request)}

\* advanced_analysis, lines 199-246: the try block; the scan, the brief
\* and the simulation either give a result or raise
AdvancedAnalysisTry(request) ==
    IF Truthy(GetAttr(request, "url")) \/ Truthy(GetAttr(request, "text"))
    THEN {PyDict(ResultDict(r).d
                 @@ ("content_analyzed" :> PyDict(EmptyDict)))
            : r \in SimulationResults} \cup {RuntimeError}
    ELSE {HTTPException(400, "Either URL or text must be provided")}

\* advanced_analysis(request), the coroutine run to its end
AdvancedAnalysisBody(sims, request) ==
    {[sims |-> sims,
      res |-> IF IsRaise(o)
              THEN HTTPException(500,
                                 "Advanced analysis failed: " \o ExcText(o))
              ELSE o]
       : o \in AdvancedAnalysisTry(request)}

(***************************************************************************)
(* The session endpoints called in any order on the one store              *)
(***************************************************************************)
\* the briefs and configurations the endpoints are given, as the binder
\* builds them from payloads (fields missing from a payload are None)
Briefs == {ParseObj("Brief", BriefPayload), ParseObj("Brief", PyDict(EmptyDict))}
TextConfigPayload ==
    PyDict([f \in FieldNames("AgentConfig") |-> PyStr("25")])
Configs ==
    {ParseObj("AgentConfig", payload) :
       payload \in {ConfigPayload, BadConfigPayload, TextConfigPayload,
                    PyDict(EmptyDict)}}
\* the requests for an analysis: with a url, with a text, with neither
AnalysisRequests ==
    {ParseObj("ContentAnalysisRequest", payload) :
       payload \in {PyDict(EmptyDict),
                    PyDict("url" :> PyStr("https://example.com")),
                    PyDict("text" :> PyStr("Fast")),
                    PyDict(("url" :> PyStr("")) @@ ("text" :> PyStr("")))}}

\* the session ids requests name: those uuid4 can give and one it never gave
CallIds == SessionIds \cup {"abc123"}

InitApp ==
    /\ BinderIdle
    /\ RouterIdle
    /\ ServerIdle
    /\ StoreEmpty
    /\ LoopIdle

\* one call of a session endpoint: its arguments, and one of the outcomes of
\* its body on the store
Invocation(func, kwargs, outcomes) ==
    /\ \E o \in outcomes :
         /\ simulations' = o.sims
         /\ res' = o.res
         /\ uploads' = IF func = "upload_brief" /\ ~IsRaise(o.res)
                       THEN uploads + 1 ELSE uploads
    /\ called' = <<[func |-> func, kwargs |-> kwargs]>>
    /\ UNCHANGED <<routes, declared, req>>
    /\ UNCHANGED <<binderVars, serverVars, loopVars>>

UploadBrief(brief) ==
    /\ Cardinality(DOMAIN simulations) < MaxSessions
    /\ Invocation("upload_brief", "brief" :> brief,
                  UploadBriefBody(simulations, brief))

ConfigureAgents(session_id, config) ==
    /\ session_id \in CallIds
    /\ Invocation("configure_agents",
                  ("session_id" :> PyStr(session_id)) @@ ("config" :> config),
                  ConfigureAgentsBody(simulations, session_id, config))

\* await simulate(session_id)
Simulate(session_id) ==
    /\ session_id \in CallIds
    /\ Invocation("simulate", "session_id" :> PyStr(session_id),
                  SimulateBody(simulations, session_id))

GetReport(session_id) ==
    /\ session_id \in CallIds
    /\ Invocation("get_report", "session_id" :> PyStr(session_id),
                  GetReportBody(simulations, session_id))

RerunSimulation(session_id) ==
    /\ session_id \in CallIds
    /\ Invocation("rerun_simulation", "session_id" :> PyStr(session_id),
                  RerunSimulationBody(simulations, session_id))

\* await analyze_content(request)
AnalyzeContent(request) ==
    /\ request \in AnalysisRequests
    /\ Invocation("analyze_content", "request" :> request,
                  AnalyzeContentBody(simulations, request))

\* await advanced_analysis(request)
AdvancedAnalysis(request) ==
    /\ request \in AnalysisRequests
    /\ Invocation("advanced_analysis", "request" :> request,
                  AdvancedAnalysisBody(simulations, request))

HealthCheck ==
    /\ Invocation("health_check", EmptyDict, HealthCheckBody(simulations))

NextApp ==
    \/ \E brief \in Briefs : UploadBrief(brief)
    \/ \E session_id \in CallIds, config \in Configs :
         ConfigureAgents(session_id, config)
    \/ \E session_id \in CallIds : Simulate(session_id)
    \/ \E session_id \in CallIds : GetReport(session_id)
    \/ \E session_id \in CallIds : RerunSimulation(session_id)
    \/ \E request \in AnalysisRequests : AnalyzeContent(request)
    \/ \E request \in AnalysisRequests : AdvancedAnalysis(request)
    \/ HealthCheck

SpecApp == InitApp /\ [][NextApp]_vars

(***************************************************************************)
(* The application behind its router: main.py's routes registered, and     *)
(* requests dispatched by _call to the endpoints on the one store          *)
(***************************************************************************)
\* the body of an endpoint run on the store
HandlerBody(func, kwargs, sims) ==
    CASE func = "upload_brief" -> UploadBriefBody(sims, kwargs["brief"])
      [] func = "configure_agents" ->
           ConfigureAgentsBody(sims, kwargs["session_id"].s,
                               kwargs["config"])
      [] func = "simulate" ->
           SimulateBody(sims, kwargs["session_id"].s)
      [] func = "get_report" ->
           GetReportBody(sims, kwargs["session_id"].s)
      [] OTHER ->
           {[sims |-> sims, res |-> r] : r \in BodyOutcomes(func, kwargs)}

\* func(**kwargs), line 63, on the store: an async def is not awaited, so
\* its body does not run and the store stays as it was
InvokeOnStore(func, kwargs, sims) ==
    LET sig == Signature(func)
    IN IF \E k \in 1..Len(sig) :
            sig[k].required /\ sig[k].name \notin DOMAIN kwargs
       THEN {[sims |-> sims, res |-> TypeError]}
       ELSE IF IsAsync(func)
       THEN {[sims |-> sims, res |-> Coroutine(func)]}
       ELSE HandlerBody(func, kwargs, sims)

\* _call with the endpoint it resolves run on the store: the possible
\* (sims, called, res) of one dispatch
CallOnStore(rs, sims, method, path, json) ==
    UNION {IF o.called = <<>>
           THEN {[sims |-> sims, called |-> o.called, res |-> o.res]}
           ELSE {[sims |-> b.sims, called |-> o.called, res |-> b.res]
                   : b \in InvokeOnStore(o.called[1].func,
                                         o.called[1].kwargs, sims)}
             : o \in Call(rs, method, path, json)}

\* the request targets of the session endpoints
SitePaths ==
    {<<"/">>, <<"/", "upload-brief">>}
    \cup {<<"/", word, "/", sid>> :
            word \in {"configure-agents", "simulate", "report"},
            sid \in CallIds}

SitePayloads == {PyNone, BriefPayload, ConfigPayload, BadConfigPayload}

InitSite ==
    /\ BinderIdle
    /\ routes = AddRoutes(InitRoutes, MainDecls)
    /\ declared = MainDecls
    /\ req = Unset
    /\ called = <<>>
    /\ res = Unset
    /\ ServerIdle
    /\ StoreEmpty
    /\ LoopIdle

\* app._call(method, path, json) with main.py's routes and store
SiteCall(method, path, json) ==
    /\ \E o \in CallOnStore(routes, simulations, method, path, json) :
         /\ Cardinality(DOMAIN o.sims) <= MaxSessions
         /\ simulations' = o.sims
         /\ called' = o.called
         /\ res' = o.res
         /\ uploads' = IF /\ o.called # <<>>
                          /\ o.called[1].func = "upload_brief"
                          /\ ~IsRaise(o.res)
                       THEN uploads + 1 ELSE uploads
    /\ req' = [method |-> method, path |-> path, json |-> json]
    /\ UNCHANGED <<routes, declared>>
    /\ UNCHANGED <<binderVars, serverVars, loopVars>>

SiteGET(path) ==
    /\ path \in SitePaths
    /\ SiteCall("GET", path, PyNone)

SitePOST(path, json) ==
    /\ path \in SitePaths
    /\ SiteCall("POST", path, json)

NextSite ==
    \/ \E path \in SitePaths : SiteGET(path)
    \/ \E path \in SitePaths, json \in SitePayloads : SitePOST(path, json)

SpecSite == InitSite /\ [][NextSite]_vars

(***************************************************************************)
(* Inputs of the binder: raw objects as a JSON decoder produces them       *)
(***************************************************************************)
MaxListLen == 2

\* values a top-level field is given, right or wrong for its type
TopValues ==
    {PyNone, PyStr(""), PyStr("Fast"), PyInt(5), PyDict(EmptyDict),
     PyList(<<>>), PyList(<<PyStr("Fast")>>)}
\* values a field of a nested mapping is given
InnerValues == {PyStr("Fast"), PyInt(5)}

RECURSIVE MapsOver(_)
\* every mapping over a subset of the keys of valsOf, each key's value drawn
\* from valsOf[key]
MapsOver(valsOf) ==
    IF DOMAIN valsOf = {} THEN {EmptyDict}
    ELSE LET k == CHOOSE key \in DOMAIN valsOf : TRUE
             rest == MapsOver([j \in DOMAIN valsOf \ {k} |-> valsOf[j]])
         IN rest \cup {(k :> v) @@ r : v \in valsOf[k], r \in rest}

InnerMaps(c) ==
    {PyDict(d) : d \in MapsOver([k \in FieldNames(c) |-> InnerValues])}

RawFieldValues(c, f) ==
    LET hint == Hints(c)[HintOf(c, f)][2]
    IN IF hint.origin = "list" /\ IsModelClass(hint.arg)
       THEN TopValues \cup
            {PyList(l) :
               l \in SeqsUpTo(InnerMaps(hint.arg) \cup {PyStr("Fast")},
                              MaxListLen)}
       ELSE IF hint.origin = "plain" /\ IsModelClass(hint.arg)
       THEN TopValues \cup InnerMaps(hint.arg)
       ELSE TopValues

RawObjects(c) ==
    {PyDict(d) :
       d \in MapsOver([k \in FieldNames(c) \cup {"extra"} |->
                         IF k = "extra" THEN {PyInt(5)}
                         ELSE RawFieldValues(c, k)])}
    \cup {PyList(<<>>), PyStr("Fast")}

BinderClasses == {"Feature", "Brief", "Pitch", "ContentAnalysisRequest"}

(***************************************************************************)
(* The binder on its own: parse_obj, dict(), parse_obj again               *)
(***************************************************************************)
InitBinder ==
    /\ RouterIdle
    /\ ServerIdle
    /\ StoreEmpty
    /\ LoopIdle
    /\ cls \in BinderClasses
    /\ obj \in RawObjects(cls)
    /\ inst = Unset
    /\ ser = Unset
    /\ inst2 = Unset

\* inst = cls.parse_obj(obj)
DoParseObj ==
    /\ inst = Unset
    /\ inst' = ParseObj(cls, obj)
    /\ UNCHANGED <<cls, obj, ser, inst2>>
    /\ UNCHANGED routerVars
    /\ UNCHANGED appVars
    /\ UNCHANGED loopVars
    /\ UNCHANGED serverVars

\* ser = inst.dict()
DoDict ==
    /\ inst.t = "obj"
    /\ ser = Unset
    /\ ser' = ModelDict(inst)
    /\ UNCHANGED <<cls, obj, inst, inst2>>
    /\ UNCHANGED routerVars
    /\ UNCHANGED appVars
    /\ UNCHANGED loopVars
    /\ UNCHANGED serverVars

\* inst2 = cls.parse_obj(ser)
DoReparse ==
    /\ ser # Unset
    /\ inst2 = Unset
    /\ inst2' = ParseObj(cls, ser)
    /\ UNCHANGED <<cls, obj, inst, ser>>
    /\ UNCHANGED routerVars
    /\ UNCHANGED appVars
    /\ UNCHANGED loopVars
    /\ UNCHANGED serverVars

NextBinder == DoParseObj \/ DoDict \/ DoReparse

SpecBinder == InitBinder /\ [][NextBinder]_vars

(***************************************************************************)
(* Properties of the router and dispatcher                                 *)
(***************************************************************************)
Min(S) == CHOOSE a \in S : \A b \in S : a <= b

\* the entries of the request's verb and those that match its path
ReqEntries == RoutesFor(routes, req.method)
ReqHits == MatchingRoutes(routes, req.method, RStrip(req.path))
\* a pattern without placeholders
IsStatic(pattern) == \A i \in 1..Len(pattern) : pattern[i].k = "lit"
\* the path parameters the first matching entry captures
ReqGroups ==
    PatternMatch(ReqEntries[Min(ReqHits)].pattern, RStrip(req.path)).groups

\* C1: when several routes of the verb match the path, the one handler
\* invoked is that of the earliest registered matching route, with the
\* path parameters that route captures; no later matching one is invoked.
C1_FirstRegisteredWins ==
    (req # Unset /\ ReqHits # {}) =>
        /\ Len(called) <= 1
        /\ \A i \in 1..Len(called) :
             /\ called[i].func = ReqEntries[Min(ReqHits)].func
             /\ called[i].kwargs =
                  BindAll(called[i].func, ReqGroups, req.json).d

\* a parametric route registered before a static one, both matching: the
\* parametric one's handler ran
C1_Witness ==
    /\ req # Unset
    /\ Cardinality(ReqHits) >= 2
    /\ ~IsStatic(ReqEntries[Min(ReqHits)].pattern)
    /\ \E k \in ReqHits : IsStatic(ReqEntries[k].pattern)
                          /\ ReqEntries[k].func # ReqEntries[Min(ReqHits)].func
    /\ Len(called) = 1
    /\ called[1].func = ReqEntries[Min(ReqHits)].func

\* the request path with one trailing separator added or removed
TwinPath ==
    IF req.path # <<>> /\ req.path[Len(req.path)] = "/"
    THEN SubSeq(req.path, 1, Len(req.path) - 1)
    ELSE req.path \o <<"/">>
\* p without a trailing separator, against p followed by one
IsTwinCase ==
    \/ req.path = <<>>
    \/ req.path[Len(req.path)] # "/"
    \/ Len(req.path) = 1
    \/ req.path[Len(req.path) - 1] # "/"

\* C2: a path not ending in a separator and the same path followed by one
\* separator are dispatched alike: same handler, same bound arguments, same
\* outcome.
C2_TrailingSeparatorIgnored ==
    (req # Unset /\ IsTwinCase) =>
        [called |-> called, res |-> res]
            \in Call(routes, req.method, TwinPath, req.json)

\* a path with a trailing separator resolved by a template registered
\* without one, a path parameter bound
C2_Witness ==
    /\ req # Unset
    /\ Len(req.path) >= 2
    /\ req.path[Len(req.path)] = "/"
    /\ req.path[Len(req.path) - 1] # "/"
    /\ Len(called) = 1
    /\ DOMAIN ReqGroups # {}
    /\ \E k \in 1..Len(declared) :
         /\ declared[k].func = called[1].func
         /\ declared[k].path[Len(declared[k].path)] # "/"

\* C3: when no route of the verb matches the normalized path, no handler is
\* invoked and an HTTPException with status 404 and a non-empty detail is
\* raised.
C3_NoMatchIsNotFound ==
    (req # Unset /\ ReqHits = {}) =>
        /\ called = <<>>
        /\ res.t = "raise"
        /\ res.exc = "HTTPException"
        /\ res.status_code = 404
        /\ res.detail # ""

\* routes are registered for the verb, none matches
C3_Witness ==
    /\ req # Unset
    /\ ReqEntries # <<>>
    /\ ReqHits = {}
    /\ res.t = "raise"

\* the parameters of the invoked handler
CalledSig == Signature(called[1].func)

\* C4: a parameter named like a captured path parameter is bound to the
\* captured text, whatever the payload holds and whatever its annotation.
C4_PathParamPrecedence ==
    (req # Unset /\ called # <<>>) =>
        \A k \in 1..Len(CalledSig) :
            CalledSig[k].name \in DOMAIN ReqGroups =>
                /\ CalledSig[k].name \in DOMAIN called[1].kwargs
                /\ called[1].kwargs[CalledSig[k].name] =
                     PyStr(ReqGroups[CalledSig[k].name])

\* a payload with a session_id key, and session_id bound from the path
C4_Witness ==
    /\ req # Unset
    /\ called # <<>>
    /\ req.json.t = "dict"
    /\ "session_id" \in DOMAIN req.json.d
    /\ "session_id" \in DOMAIN ReqGroups
    /\ called[1].kwargs["session_id"] = PyStr("xx")
    /\ called[1].kwargs["session_id"] # req.json.d["session_id"]

\* v is an instance of class c built from the mapping m: every field of c
\* holds what m gives (None when m has no such key), a nested-model field an
\* instance built from the nested mapping, a sequence-of-model field the
\* instances built from its elements, one per element and in their order
RECURSIVE BuiltFrom(_, _, _)
BuiltFrom(v, c, m) ==
    /\ v.t = "obj"
    /\ v.cls = c
    /\ DOMAIN v.attrs = FieldNames(c)
    /\ \A f \in FieldNames(c) :
         LET hint == Hints(c)[HintOf(c, f)][2]
             given == DictGet(m.d, f)
         IN IF given = PyNone THEN v.attrs[f] = PyNone
            ELSE IF hint.origin = "list" /\ IsModelClass(hint.arg)
            THEN /\ v.attrs[f].t = "list"
                 /\ Len(v.attrs[f].l) = Len(given.l)
                 /\ \A k \in 1..Len(given.l) :
                      BuiltFrom(v.attrs[f].l[k], hint.arg, given.l[k])
            ELSE IF hint.origin = "plain" /\ IsModelClass(hint.arg)
            THEN BuiltFrom(v.attrs[f], hint.arg, given)
            ELSE v.attrs[f] = given

\* C5: with a payload present, a parameter that is no path parameter and
\* is annotated with a model class is bound to an instance of that class
\* built from the payload, nested models and the elements of sequences of
\* models being instances too, in the payload's order.
C5_ModelParamConstructed ==
    (req # Unset /\ called # <<>> /\ req.json # PyNone) =>
        \A k \in 1..Len(CalledSig) :
            (CalledSig[k].name \notin DOMAIN ReqGroups
             /\ IsModelClass(CalledSig[k].ann)) =>
                /\ CalledSig[k].name \in DOMAIN called[1].kwargs
                /\ BuiltFrom(called[1].kwargs[CalledSig[k].name],
                             CalledSig[k].ann, req.json)

\* upload_brief got a Brief whose features are Feature instances in the
\* payload's order
C5_Witness ==
    /\ req # Unset
    /\ called # <<>>
    /\ called[1].func = "upload_brief"
    /\ req.json = BriefPayload
    /\ called[1].kwargs["brief"].attrs["features"].l[1].cls = "Feature"
    /\ called[1].kwargs["brief"].attrs["features"].l[1].attrs["title"]
         = PyStr("Fast")
    /\ called[1].kwargs["brief"].attrs["features"].l[2].attrs["title"]
         = PyStr("Cheap")

\* C6 as claimed: with a payload present, every parameter that is no path
\* parameter and is not annotated with a model class, annotated or not, is
\* bound to the raw payload.
C6_Claimed ==
    (req # Unset /\ called # <<>> /\ req.json # PyNone) =>
        \A k \in 1..Len(CalledSig) :
            (CalledSig[k].name \notin DOMAIN ReqGroups
             /\ ~IsModelClass(CalledSig[k].ann)) =>
                /\ CalledSig[k].name \in DOMAIN called[1].kwargs
                /\ called[1].kwargs[CalledSig[k].name] = req.json

\* C6: with a payload present, a parameter that is no path parameter and is
\* annotated with a type that is no model class is bound to the raw payload
\* unchanged; a parameter that is no path parameter and has no annotation
\* is left unbound, payload or not; without a payload every parameter that
\* is no path parameter is left unbound.
C6_ScalarParamGetsRawPayload ==
    (req # Unset /\ called # <<>>) =>
        \A k \in 1..Len(CalledSig) :
            CalledSig[k].name \notin DOMAIN ReqGroups =>
                IF req.json # PyNone /\ CalledSig[k].ann # "_empty"
                THEN IsModelClass(CalledSig[k].ann)
                     \/ (/\ CalledSig[k].name \in DOMAIN called[1].kwargs
                         /\ called[1].kwargs[CalledSig[k].name] = req.json)
                ELSE CalledSig[k].name \notin DOMAIN called[1].kwargs

\* configure_agents reached by a route that captures config: session_id,
\* annotated str, holds the whole payload
C6_Witness ==
    /\ req # Unset
    /\ called # <<>>
    /\ called[1].func = "configure_agents"
    /\ "session_id" \notin DOMAIN ReqGroups
    /\ req.json = ConfigPayload
    /\ called[1].kwargs["session_id"] = ConfigPayload

MaxSegLen == 2

\* the non-empty separator-free strings substituted for placeholders
Segs == SeqsUpTo(PathChars \ {"/"}, MaxSegLen) \ {<<>>}

\* the placeholder names of a template's items
GroupNames(items) ==
    {items[i].name : i \in {j \in 1..Len(items) : items[j].k = "group"}}
\* one or more placeholders, no name twice
HasDistinctPlaceholders(items) ==
    /\ GroupNames(items) # {}
    /\ \A i, j \in 1..Len(items) :
         (items[i].k = "group" /\ items[j].k = "group" /\ i # j)
            => items[i].name # items[j].name
\* between any two placeholders stands a separator
PlaceholdersSeparated(items) ==
    \A i, j \in 1..Len(items) :
        (items[i].k = "group" /\ items[j].k = "group" /\ i < j)
           => \E k \in (i + 1)..(j - 1) : items[k] = Lit("/")

RECURSIVE Substitute(_, _)
\* the template's text with vals[name] written in place of {name}
Substitute(items, vals) ==
    IF items = <<>> THEN <<>>
    ELSE (IF Head(items).k = "group" THEN vals[Head(items).name]
          ELSE <<Head(items).c>>) \o Substitute(Tail(items), vals)

\* matching the substituted path against the compiled template captures
\* exactly the substituted strings, each under its placeholder's name
CapturesSubstituted(path) ==
    LET items == SubPlaceholders(path)
    IN \A vals \in [GroupNames(items) -> Segs] :
          PatternMatch(CompilePath(path), RStrip(Substitute(items, vals)))
            = Matched([n \in GroupNames(items) |-> Join(vals[n])])

\* C9 as claimed: for every registered template with distinct placeholders
\* and all non-empty separator-free strings, the substituted path matches
\* and captures exactly those strings.
C9_Claimed ==
    \A k \in 1..Len(declared) :
        HasDistinctPlaceholders(SubPlaceholders(declared[k].path))
           => CapturesSubstituted(declared[k].path)

\* C9: for every registered template with distinct placeholders any two of
\* which have a separator between them, and all non-empty separator-free
\* strings, the substituted path matches and captures exactly those
\* strings, each under its placeholder's name.
C9_SeparatedPlaceholdersCaptured ==
    \A k \in 1..Len(declared) :
        (/\ HasDistinctPlaceholders(SubPlaceholders(declared[k].path))
         /\ PlaceholdersSeparated(SubPlaceholders(declared[k].path)))
           => CapturesSubstituted(declared[k].path)

\* "/xx/x" dispatched through "/{a}/{b}": a is "xx" and b is "x"
C9_Witness ==
    /\ req # Unset
    /\ called # <<>>
    /\ ReqEntries[Min(ReqHits)].pattern
         = CompilePath(<<"/", "{", "a", "}", "/", "{", "b", "}">>)
    /\ req.path = <<"/", "x", "x", "/", "x">>
    /\ called[1].kwargs["a"] = PyStr("xx")
    /\ called[1].kwargs["b"] = PyStr("x")

(***************************************************************************)
(* Properties of the binder                                                *)
(***************************************************************************)
\* a value of the declared scalar type
TypeConforms(typ, v) ==
    CASE typ = "str" -> v.t = "str"
      [] typ \in {"int", "float"} -> v.t = "int"
      [] typ = "Dict" -> v.t = "dict"
      [] OTHER -> FALSE

RECURSIVE Conforms(_, _)
\* m conforms to class c: a mapping with exactly c's fields, each holding a
\* value of its declared type, nested mappings conforming in turn
Conforms(c, m) ==
    /\ m.t = "dict"
    /\ DOMAIN m.d = FieldNames(c)
    /\ \A f \in FieldNames(c) :
         LET hint == Hints(c)[HintOf(c, f)][2]
             v == m.d[f]
         IN CASE hint.origin = "list" /\ IsModelClass(hint.arg) ->
                   /\ v.t = "list"
                   /\ \A k \in 1..Len(v.l) : Conforms(hint.arg, v.l[k])
              [] hint.origin = "list" /\ ~IsModelClass(hint.arg) ->
                   /\ v.t = "list"
                   /\ \A k \in 1..Len(v.l) : TypeConforms(hint.arg, v.l[k])
              [] hint.origin = "plain" /\ IsModelClass(hint.arg) ->
                   Conforms(hint.arg, v)
              [] hint.origin = "plain" /\ ~IsModelClass(hint.arg) ->
                   TypeConforms(hint.arg, v)
              [] OTHER -> v = PyNone \/ TypeConforms(hint.arg, v)

\* C7: for a mapping that conforms to the class, dict() of the parsed
\* instance is the mapping again, and parsing that gives an instance with
\* the same field values.
C7_RoundTrip ==
    (inst # Unset /\ Conforms(cls, obj)) =>
        /\ inst.t = "obj"
        /\ ser # Unset => ser = obj
        /\ inst2 # Unset => inst2 = inst

\* a conforming Brief with features went round: its features were Feature
\* instances in between
C7_Witness ==
    /\ cls = "Brief"
    /\ Conforms(cls, obj)
    /\ Len(obj.d["features"].l) >= 1
    /\ inst.t = "obj"
    /\ inst.attrs["features"].l[1].t = "obj"
    /\ ser = obj
    /\ inst2 = inst

\* a field whose hint is a model class or a list of one
IsModelField(hint) ==
    hint.origin \in {"plain", "list"} /\ IsModelClass(hint.arg)
\* the fields of the class that are not
ScalarFields(c) ==
    {f \in FieldNames(c) : ~IsModelField(Hints(c)[HintOf(c, f)][2])}

RECURSIVE IllShaped(_, _)
\* a value given for a model field that is not None and is no mapping (for a
\* nested model), or is not iterable or yields an element that is no
\* mapping (for a sequence of models); a str yields its characters, a dict
\* its keys; the mappings are looked into in turn
IllShaped(hint, v) ==
    LET inside(m) ==
            \E g \in FieldNames(hint.arg) :
                /\ IsModelField(Hints(hint.arg)[HintOf(hint.arg, g)][2])
                /\ IllShaped(Hints(hint.arg)[HintOf(hint.arg, g)][2],
                             DictGet(m.d, g))
    IN /\ v # PyNone
       /\ IF hint.origin = "plain"
          THEN v.t # "dict" \/ inside(v)
          ELSE CASE v.t = "list" ->
                      \E k \in 1..Len(v.l) :
                          v.l[k].t # "dict" \/ inside(v.l[k])
                 [] v.t = "str" -> v.s # ""
                 [] v.t = "dict" -> DOMAIN v.d # {}
                 [] OTHER -> TRUE

\* what C8 says of an instance: a field the mapping leaves out holds None,
\* declared default or not, and a non-model field holds what was given
MissingIsNoneAndScalarsKept ==
    /\ \A f \in FieldNames(cls) \ DOMAIN obj.d : GetAttr(inst, f) = PyNone
    /\ \A f \in ScalarFields(cls) : GetAttr(inst, f) = DictGet(obj.d, f)

ResultText == JsonText(IF res.t = "obj" THEN ModelDict(res) ELSE res)

\* C10 as claimed: for every request whose dispatch returned a result,
\* exactly one response is written, with status 200, the serialized result
\* as body and a Content-Length equal to the body's length; for every
\* request whose dispatch raised HTTPException(code, message), exactly one
\* response is written, with status code, body {"detail": message} and an
\* exact Content-Length.
C10_Claimed ==
    (sreq # Unset /\ req # Unset) =>
        /\ Len(wfile) <= 1
        /\ ~IsRaise(res) =>
             /\ Len(wfile) = 1
             /\ wfile[1].status = 200
             /\ wfile[1].body = ResultText
             /\ wfile[1].headers[2]
                  = <<"Content-Length", ToString(Len(wfile[1].body))>>
        /\ (IsRaise(res) /\ res.exc = "HTTPException") =>
             /\ Len(wfile) = 1
             /\ wfile[1].status = res.status_code
             /\ wfile[1].body
                  = JsonText(PyDict("detail" :> PyStr(res.detail)))
             /\ wfile[1].headers[2]
                  = <<"Content-Length", ToString(Len(wfile[1].body))>>

\* the {"detail": ...} body of a structured error
DetailText(detail) == JsonText(PyDict("detail" :> PyStr(detail)))

\* C11 as claimed: the only failure answered with a status code and a
\* {"detail": ...} body is the request no registered pattern matches; a
\* failure raised anywhere else, a handler body included, gets no such
\* response.
C11_Claimed ==
    sreq # Unset =>
        \A k \in 1..Len(wfile) :
            wfile[k].status # 200 =>
                /\ req # Unset
                /\ ReqHits = {}
                /\ called = <<>>

\* C11, amended: a failure is answered with a status code and a
\* {"detail": ...} body exactly when it is an HTTPException, be it the 404
\* _call raises for an unmatched request or one a handler body raises
\* (answered with the handler's own status and detail); every other failure
\* (a body that does not decode, an invocation that fails, a result that
\* does not serialize) leaves _dispatch as an exception, nothing written.
C11_OnlyHTTPExceptionAnswered ==
    sreq # Unset =>
        /\ (req # Unset /\ IsRaise(res) /\ res.exc = "HTTPException") =>
              /\ wfile = <<Response(res.status_code, DetailText(res.detail))>>
              /\ exc = Unset
        /\ (req # Unset /\ IsRaise(res) /\ res.exc # "HTTPException") =>
              /\ wfile = <<>>
              /\ exc = res
        /\ (req # Unset /\ ~IsRaise(res) /\ ~JsonSerializable(
                 IF res.t = "obj" THEN ModelDict(res) ELSE res)) =>
              /\ wfile = <<>>
              /\ exc = TypeError
        /\ req = Unset =>
              /\ wfile = <<>>
              /\ exc = RequestPayload(sreq)
              /\ IsRaise(exc)
        /\ \A k \in 1..Len(wfile) :
              wfile[k].status # 200 =>
                  /\ req # Unset
                  /\ IsRaise(res)
                  /\ res.exc = "HTTPException"
                  /\ wfile[k].status = res.status_code
        /\ wfile = <<>> <=> exc # Unset

\* a handler body raised HTTPException 400 and the server answered with it
C11_Witness ==
    /\ sreq # Unset
    /\ called # <<>>
    /\ called[1].func = "configure_agents"
    /\ res = HTTPException(400, "Agent percentages must sum to 100")
    /\ Len(wfile) = 1
    /\ wfile[1].status = 400
    /\ wfile[1].body = DetailText("Agent percentages must sum to 100")

\* the request carries no body: not a POST, no Content-Length, or no bytes
HasNoBody(r) == r.method # "POST" \/ r.content_length = 0 \/ r.body = ""

\* the parameters of the handler resolved for the request that are required
\* and are not path parameters of the matched pattern
NonPathRequired ==
    LET entry == ReqEntries[Min(ReqHits)]
        sig == Signature(entry.func)
        groups == PatternMatch(entry.pattern, RStrip(req.path)).groups
    IN {sig[i].name : i \in {j \in 1..Len(sig) :
                                sig[j].required
                                /\ sig[j].name \notin DOMAIN groups}}

\* C12: a request without a body that resolves to a handler with a
\* required parameter that is not a path parameter: the handler is invoked
\* with that parameter left out of its arguments, the TypeError of the
\* invocation leaves _dispatch uncaught, and no response, neither 200 nor
\* a structured error, is written.
C12_UnboundParamFailsUncaught ==
    (sreq # Unset /\ HasNoBody(sreq) /\ req # Unset /\ ReqHits # {}
       /\ NonPathRequired # {}) =>
        /\ req.json = PyNone
        /\ Len(called) = 1
        /\ called[1].func = ReqEntries[Min(ReqHits)].func
        /\ NonPathRequired \cap DOMAIN called[1].kwargs = {}
        /\ res = TypeError
        /\ exc = res
        /\ wfile = <<>>

\* POST /upload-brief/ without a body
C12_Witness ==
    /\ sreq # Unset
    /\ sreq.method = "POST"
    /\ sreq.body = ""
    /\ called # <<>>
    /\ called[1].func = "upload_brief"
    /\ "brief" \notin DOMAIN called[1].kwargs
    /\ exc = TypeError
    /\ wfile = <<>>

(***************************************************************************)
(* Properties of the registry                                              *)
(***************************************************************************)
\* the registrations, of any verb, whose template matches the request path
DeclaredMatching ==
    {k \in 1..Len(declared) :
       PatternMatch(CompilePath(declared[k].path), RStrip(req.path))
         # NoMatch}

\* C13: a request with a verb other than GET and POST invokes no handler
\* and raises the not-found HTTPException, whatever is registered; a
\* request resolves only to a route registered for its own verb: with no
\* matching registration of that verb it is not found, and the handler
\* invoked is that of the first matching registration of that verb.
C13_VerbsKeptApart ==
    req # Unset =>
        LET own == {k \in DeclaredMatching :
                      declared[k].method = req.method}
        IN /\ req.method \notin {"GET", "POST"} =>
                /\ called = <<>>
                /\ res = NotFound
           /\ own = {} =>
                /\ called = <<>>
                /\ res = NotFound
           /\ called # <<>> =>
                /\ own # {}
                /\ called[1].func = declared[Min(own)].func

\* a PUT for a path that a registered GET or POST route matches
C13_Witness ==
    /\ req # Unset
    /\ req.method = "PUT"
    /\ DeclaredMatching # {}
    /\ called = <<>>
    /\ res = NotFound

\* C14: every step that changes the registry appends exactly one entry, the
\* compiled pattern and handler of the registration just made, at the end
\* of that registration's verb, and leaves every entry that was there and
\* their order as they were; a step that dispatches a request (found, not
\* found, or the handler failing) or returns from it changes no entry.
C14_RegistryAppendOnly ==
    [][/\ (req' # req \/ called' # called \/ res' # res) => routes' = routes
       /\ routes' # routes =>
            /\ Len(declared') = Len(declared) + 1
            /\ LET d == declared'[Len(declared')]
               IN /\ DOMAIN routes' = DOMAIN routes
                  /\ routes'[d.method]
                       = Append(routes[d.method],
                                Route(CompilePath(d.path), d.func))
                  /\ \A m \in DOMAIN routes \ {d.method} :
                       routes'[m] = routes[m]]_vars

\* two routes registered for one verb, then a dispatch in which the
\* handler raised
C14_Witness ==
    /\ \E m \in DOMAIN routes : Len(routes[m]) = 2
    /\ req # Unset
    /\ called # <<>>
    /\ IsRaise(res)

(***************************************************************************)
(* Properties of the compiled patterns                                     *)
(***************************************************************************)
\* the text of a pattern without groups, character by character
LitText(pattern) == [i \in 1..Len(pattern) |-> pattern[i].c]

\* the non-empty runs of characters of p that hold no separator
SubRuns(p) ==
    {SubSeq(p, a, b) : a \in 1..Len(p), b \in 1..Len(p)}
      \cap {q \in SeqsUpTo(PathChars \cup {"."}, Len(p)) :
              q # <<>> /\ \A i \in 1..Len(q) : q[i] # "/"}

\* p is the pattern's text with a non-empty separator-free string in the
\* place of each group, nothing before it and nothing after
IsWholeInstance(pattern, p) ==
    \E vals \in [GroupNames(pattern) -> SubRuns(p)] :
        p = Substitute(pattern, vals)

\* C16 as claimed: a registered pattern without placeholders matches a
\* normalized path exactly when the path is the template's normalized
\* text, whatever the template; and whatever a registered pattern matches
\* is the template's text with the placeholders filled by non-empty
\* separator-free strings: no extra leading prefix, no extra trailing
\* segment, no empty segment.
C16_Claimed ==
    req # Unset =>
        \A k \in 1..Len(ReqEntries) :
            LET pattern == ReqEntries[k].pattern
                p == RStrip(req.path)
            IN /\ IsStatic(pattern) =>
                    (PatternMatch(pattern, p) # NoMatch
                       <=> p = LitText(pattern))
               /\ PatternMatch(pattern, p) # NoMatch =>
                    IsWholeInstance(pattern, p)

\* s without its last character when that is a separator
StripOne(s) ==
    IF s # <<>> /\ s[Len(s)] = "/" THEN SubSeq(s, 1, Len(s) - 1) ELSE s

\* s up to its last character that is not a separator
Stem(s) ==
    LET keep == {i \in 1..Len(s) : s[i] # "/"}
    IN IF keep = {} THEN <<>>
       ELSE SubSeq(s, 1, CHOOSE i \in keep : \A j \in keep : j <= i)

\* C17 as claimed: the registered patterns are compiled from the templates
\* less one trailing separator, a request is resolved as its path less one
\* trailing separator is matched (further trailing separators count), and
\* an entry of the empty template or "/" is resolved for the root path
\* only.
C17_Claimed ==
    /\ \A k \in 1..Len(declared) :
         \E e \in 1..Len(routes[declared[k].method]) :
            routes[declared[k].method][e].pattern
              = SubPlaceholders(StripOne(declared[k].path))
    /\ req # Unset =>
         /\ ReqHits = MatchingRoutes(routes, req.method, StripOne(req.path))
         /\ \A k \in ReqHits :
              ReqEntries[k].pattern = <<>> => req.path \in {<<>>, <<"/">>}

\* C17, amended: every trailing separator is removed: a pattern is compiled
\* from its template without any of its trailing separators, a request is
\* dispatched as its path without any of its trailing separators is,
\* however many there are; and an entry of the empty template or "/" is
\* resolved exactly for the paths made of separators only (the root path,
\* the empty path, "//", ...).
C17_AllTrailingSeparatorsIgnored ==
    /\ \A m \in DOMAIN routes : \A e \in 1..Len(routes[m]) :
         \E k \in 1..Len(declared) :
            /\ declared[k].method = m
            /\ routes[m][e].pattern = SubPlaceholders(Stem(declared[k].path))
    /\ req # Unset =>
        /\ [called |-> called, res |-> res]
             \in Call(routes, req.method, Stem(req.path), req.json)
        /\ \A k \in 1..Len(ReqEntries) :
             ReqEntries[k].pattern = <<>> =>
                (k \in ReqHits <=> \A i \in 1..Len(req.path) :
                                      req.path[i] = "/")
        /\ (called # <<>> /\ ReqEntries[Min(ReqHits)].pattern = <<>>) =>
             \A i \in 1..Len(req.path) : req.path[i] = "/"

\* a path with three trailing separators resolved to a handler
C17_Witness ==
    /\ req # Unset
    /\ Len(req.path) >= 4
    /\ \A i \in (Len(req.path) - 2)..Len(req.path) : req.path[i] = "/"
    /\ Stem(req.path) # <<>>
    /\ called # <<>>

(***************************************************************************)
(* Properties of the serving loop                                          *)
(***************************************************************************)
\* C15: at no point are two requests in progress, and the handling of a
\* request begins only when no other request is in progress: the one
\* before has had its response written, or has failed, and its connection
\* is shut down.
C15_OneRequestAtATime ==
    [][/\ Len(active') <= 1
       /\ Len(active') > Len(active) => active = <<>>]_vars

\* a request is being dispatched while two more connections wait
C15_Witness ==
    /\ Len(active) = 1
    /\ active[1].phase = "dispatching"
    /\ Len(backlog) = 2

(***************************************************************************)
(* Properties of the session store                                         *)
(***************************************************************************)
\* the session id an endpoint call names
CalledId(c) == c[1].kwargs["session_id"].s

\* every session with a result has a configuration
ResultsHaveConfig(sims) ==
    \A sid \in DOMAIN sims :
        sims[sid].simulation_result # PyNone => sims[sid].agent_config # PyNone

\* C18: in every state the store reaches, a session whose simulation_result
\* is set has its agent_config set; a simulate or rerun_simulation call on a
\* session without a saved configuration raises HTTPException 400 "Agent
\* configuration missing" and leaves the store as it was.
C18_ResultImpliesConfig ==
    [][/\ ResultsHaveConfig(simulations')
       /\ (/\ Len(called') = 1
           /\ called'[1].func \in {"simulate", "rerun_simulation"}
           /\ CalledId(called') \in DOMAIN simulations
           /\ simulations[CalledId(called')].agent_config = PyNone) =>
             /\ res' = HTTPException(400, "Agent configuration missing")
             /\ simulations' = simulations]_vars

\* simulate was refused for a session without a configuration while another
\* session holds a result
C18_Witness ==
    /\ Len(called) = 1
    /\ called[1].func = "simulate"
    /\ res = HTTPException(400, "Agent configuration missing")
    /\ CalledId(called) \in DOMAIN simulations
    /\ simulations[CalledId(called)].agent_config = PyNone
    /\ \E sid \in DOMAIN simulations :
         /\ simulations[sid].simulation_result # PyNone
         /\ simulations[sid].agent_config # PyNone

\* the four percentages of a configuration are integers that add up to 100
SumsTo100(config) ==
    /\ config.t = "obj"
    /\ \A f \in FieldNames("AgentConfig") : GetAttr(config, f).t = "int"
    /\ GetAttr(config, "customer_percentage").i
         + GetAttr(config, "competitor_percentage").i
         + GetAttr(config, "influencer_percentage").i
         + GetAttr(config, "internal_team_percentage").i = 100

\* C19: configure_agents stores the configuration only when its percentages
\* sum to 100: a call for an existing session with another sum raises
\* HTTPException 400 "Agent percentages must sum to 100" and leaves the
\* whole store, the session's previous agent_config included, as it was,
\* and every agent_config in the store sums to 100.
C19_OnlyFullConfigStored ==
    [][/\ \A sid \in DOMAIN simulations' :
            simulations'[sid].agent_config # PyNone
               => SumsTo100(simulations'[sid].agent_config)
       /\ (Len(called') = 1 /\ called'[1].func = "configure_agents") =>
            LET config == called'[1].kwargs["config"]
                sid == CalledId(called')
            IN /\ ~SumsTo100(config) => simulations' = simulations
               /\ (/\ sid \in DOMAIN simulations
                   /\ \A f \in FieldNames("AgentConfig") :
                        GetAttr(config, f).t = "int"
                   /\ ~SumsTo100(config)) =>
                     res' = HTTPException(
                              400, "Agent percentages must sum to 100")
               /\ (sid \in DOMAIN simulations /\ SumsTo100(config)) =>
                     /\ simulations'
                          = [simulations EXCEPT ![sid].agent_config = config]
                     /\ ~IsRaise(res')]_vars

\* a configuration summing to 95 was refused for a session that keeps the
\* configuration saved before
C19_Witness ==
    /\ Len(called) = 1
    /\ called[1].func = "configure_agents"
    /\ ~SumsTo100(called[1].kwargs["config"])
    /\ res = HTTPException(400, "Agent percentages must sum to 100")
    /\ CalledId(called) \in DOMAIN simulations
    /\ SumsTo100(simulations[CalledId(called)].agent_config)

\* C20: configure_agents, simulate, get_report and rerun_simulation called
\* with a session id that is not a key of the store each raise
\* HTTPException 404 "Session not found", create no session and leave the
\* whole store as it was.
C20_UnknownSessionNotFound ==
    [][(/\ Len(called') = 1
        /\ called'[1].func \in {"configure_agents", "simulate", "get_report",
                                 "rerun_simulation"}
        /\ CalledId(called') \notin DOMAIN simulations) =>
          /\ res' = HTTPException(404, "Session not found")
          /\ simulations' = simulations]_vars

\* rerun_simulation was refused for an unknown id while the store holds
\* sessions
C20_Witness ==
    /\ Len(called) = 1
    /\ called[1].func = "rerun_simulation"
    /\ CalledId(called) \notin DOMAIN simulations
    /\ res = HTTPException(404, "Session not found")
    /\ Cardinality(DOMAIN simulations) = 2

\* the simulation_result of a session, None for an id without a session
StoredResult(sims, sid) ==
    IF sid \in DOMAIN sims THEN sims[sid].simulation_result ELSE PyNone

\* C21: get_report on an existing session without a stored result raises
\* HTTPException 400 "Simulation not completed"; a result gets into a
\* session only by a simulate or rerun_simulation call for that session
\* that returned, so a report is returned only after such a run; a returned
\* report carries the session id asked for and the adoption_score,
\* top_objections and must_fix of the result the session holds, the one
\* stored last; and get_report leaves the store as it was.
C21_ReportOnlyAfterRun ==
    [][/\ (Len(called') = 1 /\ called'[1].func = "get_report") =>
            LET sid == CalledId(called')
                result == StoredResult(simulations, sid)
            IN /\ simulations' = simulations
               /\ (sid \in DOMAIN simulations /\ result = PyNone) =>
                     res' = HTTPException(400, "Simulation not completed")
               /\ ~IsRaise(res') =>
                     /\ sid \in DOMAIN simulations
                     /\ result # PyNone
                     /\ res'.t = "obj"
                     /\ res'.cls = "SimulationReport"
                     /\ GetAttr(res', "session_id") = PyStr(sid)
                     /\ \A f \in {"adoption_score", "top_objections",
                                   "must_fix"} :
                          GetAttr(res', f) = result.d[f]
       /\ \A sid \in DOMAIN simulations' :
            (/\ StoredResult(simulations', sid) # PyNone
             /\ StoredResult(simulations', sid)
                  # StoredResult(simulations, sid)) =>
               /\ Len(called') = 1
               /\ called'[1].func \in {"simulate", "rerun_simulation"}
               /\ CalledId(called') = sid
               /\ res' = StoredResult(simulations', sid)]_vars

\* a report returned for a session that holds the second of the results
C21_Witness ==
    /\ Len(called) = 1
    /\ called[1].func = "get_report"
    /\ res.t = "obj"
    /\ GetAttr(res, "session_id") = PyStr(CalledId(called))
    /\ GetAttr(res, "adoption_score") = PyInt(40)
    /\ StoredResult(simulations, CalledId(called)).d["adoption_score"]
         = PyInt(40)

\* the session a request to the simulate endpoint names
SimulateTarget(r) ==
    IF r # Unset /\ r.method = "POST" /\ Len(r.path) = 4
       /\ r.path[2] = "simulate"
    THEN r.path[4] ELSE ""

\* C22: when _call resolves POST /simulate/{session_id} for a session of
\* the store that has an agent configuration and returns without raising,
\* the session holds a simulation result afterwards.
C22_Claimed ==
    [][\A sid \in DOMAIN simulations :
         (/\ SimulateTarget(req') = sid
          /\ Truthy(simulations[sid].agent_config)
          /\ ~IsRaise(res')) =>
            StoredResult(simulations', sid) # PyNone]_vars

\* C22: a GET /report/{session_id} dispatched right after such a returned
\* POST /simulate/{session_id} raises "Simulation not completed".
C22_ReportAfterDispatchedRun ==
    /\ req # Unset
    /\ req.method = "GET"
    /\ Len(req.path) = 4
    /\ req.path[2] = "report"
    /\ req.path[4] \in DOMAIN simulations
    /\ Truthy(simulations[req.path[4]].agent_config)
    /\ res = HTTPException(400, "Simulation not completed")

\* an analysis endpoint called with a request without a url and a text
NeitherGiven ==
    /\ Len(called) = 1
    /\ called[1].func \in {"analyze_content", "advanced_analysis"}
    /\ ~Truthy(GetAttr(called[1].kwargs["request"], "url"))
    /\ ~Truthy(GetAttr(called[1].kwargs["request"], "text"))

\* C23: analyze_content and advanced_analysis called with a request that
\* has neither a url nor a text raise HTTPException 400 "Either URL or
\* text must be provided"; status 500 is raised only when a url or a text
\* was given and the analysis failed.
C23_Claimed ==
    /\ NeitherGiven =>
         res = HTTPException(400, "Either URL or text must be provided")
    /\ (/\ Len(called) = 1
        /\ called[1].func \in {"analyze_content", "advanced_analysis"}
        /\ IsRaise(res)
        /\ res.status_code = 500) => ~NeitherGiven

\* C23: what the endpoints raise for such a request, the 400 caught by
\* their own except Exception and raised again as a 500
C23_RaisedAs500 ==
    NeitherGiven =>
      res \in {HTTPException(
                 500, "Analysis failed: Either URL or text must be provided"),
               HTTPException(
                 500, "Advanced analysis failed: "
                        \o "Either URL or text must be provided")}

\* analyze_content called without a url and a text
C23_Witness ==
    /\ NeitherGiven
    /\ called[1].func = "analyze_content"
    /\ res.status_code = 500

\* the endpoint the latest call ran, "" when none
CalledFunc(c) == IF Len(c) = 1 THEN c[1].func ELSE ""

\* C24: no step removes a session or changes a session's brief; a call of
\* upload_brief adds exactly one session, under an id no session had, with
\* the brief given and agent_config and simulation_result None, and leaves
\* every other session as it was; no other call adds a session; and
\* health_check reports as simulations_running the number of upload_brief
\* calls that returned so far.
C24_StoreOnlyGrows ==
    [][/\ DOMAIN simulations \subseteq DOMAIN simulations'
       /\ \A sid \in DOMAIN simulations :
            simulations'[sid].brief = simulations[sid].brief
       /\ CalledFunc(called') = "upload_brief" =>
            \E sid \in DOMAIN simulations' \ DOMAIN simulations :
              /\ DOMAIN simulations' = DOMAIN simulations \cup {sid}
              /\ simulations'[sid]
                   = [brief |-> called'[1].kwargs["brief"],
                      agent_config |-> PyNone,
                      simulation_result |-> PyNone]
              /\ \A other \in DOMAIN simulations :
                   simulations'[other] = simulations[other]
              /\ res' = PyDict(("session_id" :> PyStr(sid))
                               @@ ("message" :>
                                     PyStr("Brief uploaded successfully")))
       /\ CalledFunc(called') # "upload_brief" =>
            DOMAIN simulations' = DOMAIN simulations
       /\ CalledFunc(called') = "health_check" =>
            /\ simulations' = simulations
            /\ res'.d["simulations_running"] = PyInt(uploads)]_vars

\* health_check reporting two sessions after two uploads
C24_Witness ==
    /\ CalledFunc(called) = "health_check"
    /\ uploads = 2
    /\ res.d["simulations_running"] = PyInt(2)
    /\ \E sid \in DOMAIN simulations :
         simulations[sid].simulation_result # PyNone

====
